---- MODULE Spec2Model ----
(***************************************************************************)
(* The signaling server of video-call-app-basic (src/unnamed/part_001):    *)
(* the maps rooms, socketToRoom and userProfiles, the socket.io adapter    *)
(* rooms the handlers address their emits to, the handlers of one socket   *)
(* and the periodic cleanup.  Handlers run to completion one at a time     *)
(* (one event loop), so every handler is one action.                       *)
(*                                                                         *)
(* Strings are sequences of one-character strings, so that trim() and      *)
(* toLowerCase() are computed.  A value a client puts in a payload is a JS *)
(* value: undefined, a number, or a string.                                *)
(***************************************************************************)
EXTENDS Integers, Sequences, FiniteSets, TLC

\* ---------------------------------------------------------------- bounds
\* sockets that ever connect (socket ids are never reused)
MaxSockets == 3
\* room:join events handled in one run of the join specification
MaxJoins == 4
\* room:join events handled in one run of the specification with the sweep
MaxSweepJoins == 3
\* sockets that ever connect in the signaling and normalisation specifications
MaxPeers == 2
\* room:join events handled in one run of those two specifications
MaxPairJoins == 2
\* longest raw room id of the normalisation specification
MaxLen == 2

\* 30 * 60 * 1000 ms, in units of 30 minutes
maxInactiveTime == 1
\* now - lastActivity is only ever compared with maxInactiveTime: the model
\* keeps the difference, and stops counting one unit past the threshold
MaxIdle == maxInactiveTime + 1

\* ------------------------------------------------------------- JS values
Undefined == [t |-> "undefined", s |-> <<>>]
Num5 == [t |-> "number", s |-> <<"5">>]
Str(s) == [t |-> "string", s |-> s]
IsString(v) == v.t = "string"
\* !v is false for a non-empty string and for the number 5
Truthy(v) == \/ v.t = "number"
             \/ v.t = "string" /\ v.s # <<>>

IsSpace(ch) == ch = " "
Lower(ch) == CASE ch = "A" -> "a"
               [] ch = "B" -> "b"
               [] OTHER -> ch

RECURSIVE trimStart(_)
trimStart(s) == IF s # <<>> /\ IsSpace(Head(s)) THEN trimStart(Tail(s)) ELSE s

RECURSIVE trimEnd(_)
trimEnd(s) == IF s # <<>> /\ IsSpace(s[Len(s)])
              THEN trimEnd(SubSeq(s, 1, Len(s) - 1)) ELSE s

trim(s) == trimEnd(trimStart(s))

toLowerCase(s) == [i \in 1..Len(s) |-> Lower(s[i])]

cleanRoomIdMutant(s) == trim(s)

\* roomId.trim().toLowerCase()
cleanRoomId(s) == toLowerCase(trim(s))

InvalidRoomIdMutant(v) == ~Truthy(v) \/ ~IsString(v)

\* !roomId || typeof roomId !== 'string' || roomId.trim().length === 0
InvalidRoomId(v) == \/ ~Truthy(v)
                    \/ ~IsString(v)
                    \/ Len(trim(v.s)) = 0

\* ------------------------------------------------------------------ Maps
Has(m, k) == k \in DOMAIN m
MapSet(m, k, v) == [x \in (DOMAIN m) \cup {k} |-> IF x = k THEN v ELSE m[x]]
MapDelete(m, k) == [x \in (DOMAIN m) \ {k} |-> m[x]]
EmptyMap == << >>
\* m.get(k); undefined is NoRoom (the maps read this way hold room ids)
NoRoom == <<>>
Get(m, k) == IF Has(m, k) THEN m[k] ELSE NoRoom

\* ------------------------------------------------------------ socket ids
\* socket.io assigns the ids; they are taken not to coincide with a
\* normalised room id (they contain upper-case characters).
IdChars == <<"W", "X", "Y", "Z", "V">>
SocketId(i) == <<IdChars[i]>>
SocketIds == {SocketId(i) : i \in 1..MaxSockets}

VARIABLES
    proc,           \* "running" or "exited" (process.exit)
    nextId,         \* index of the next socket id to be assigned
    connected,      \* the connected sockets
    adapter,        \* socket.io: socket id -> the adapter rooms it is in
    rooms,          \* Map room id -> Set of socket ids
    socketToRoom,   \* Map socket id -> room id
    userProfiles,   \* Map socket id -> profile
    joins,          \* room:join events handled so far
    timer,          \* the cleanup interval: "set" or "cleared"
    last,           \* the event handled by the last step
    sent,           \* the emits of the last step that reached a socket
    joinedAs,       \* history: socket in a room -> the raw room id it was admitted with
    roomJoined      \* the sockets whose client (App.jsx) has set its roomJoined flag

vars == <<proc, nextId, connected, adapter, rooms, socketToRoom,
          userProfiles, joins, timer, last, sent, joinedAs, roomJoined>>

\* the server's maps and sockets as one value, threaded through a handler
State == [connected |-> connected, adapter |-> adapter, rooms |-> rooms,
          socketToRoom |-> socketToRoom, userProfiles |-> userProfiles,
          sent |-> <<>>]

\* ----------------------------------------------------------------- emits
\* the connected sockets in adapter room `name`
InRoom(st, name) == {s \in st.connected : name \in st.adapter[s]}

Event(rcpt, ev, who, data) == [rcpt |-> rcpt, ev |-> ev, who |-> who, data |-> data]
NoId == <<>>

Push(st, e) == IF e.rcpt = {} THEN st
               ELSE [st EXCEPT !.sent = Append(@, e)]

\* socket.emit(ev, ...)
SocketEmit(st, id, ev, who, data) ==
    Push(st, Event({id} \cap st.connected, ev, who, data))

\* io.to(name).emit(ev, ...)
IoToEmit(st, name, ev, who, data) ==
    Push(st, Event(InRoom(st, name), ev, who, data))

SocketToEmitMutant(st, id, to, ev, who, data) ==
    Push(st, Event(IF IsString(to) THEN {to.s} \ {id} ELSE {}, ev, who, data))

\* socket.to(to).emit(ev, ...): the room `to` but the sender
SocketToEmit(st, id, to, ev, who, data) ==
    Push(st, Event(IF IsString(to) THEN InRoom(st, to.s) \ {id} ELSE {},
                   ev, who, data))

\* the ids of a set in the order the sockets connected (Map and Set
\* iteration order is insertion order; rooms hold at most a few ids)
RECURSIVE InOrder(_, _)
InOrder(S, i) == IF i > MaxSockets THEN <<>>
                 ELSE IF SocketId(i) \in S
                      THEN <<SocketId(i)>> \o InOrder(S, i + 1)
                      ELSE InOrder(S, i + 1)

\* Array.from(ids).forEach(other => io.to(other).emit(ev, {socketId, roomId}))
RECURSIVE EmitEach(_, _, _, _, _)
EmitEach(st, ids, ev, who, data) ==
    IF ids = <<>> THEN st
    ELSE EmitEach(IoToEmit(st, Head(ids), ev, who, data), Tail(ids), ev, who, data)

\* ------------------------------------------------------- utility functions
cleanupRoomMutant(st, roomId) == st

cleanupRoom(st, roomId) ==
    IF Has(st.rooms, roomId) /\ st.rooms[roomId] = {}
    THEN [st EXCEPT !.rooms = MapDelete(@, roomId)]
    ELSE st

\* what leaveCurrentRoom returns: the room the socket left, or NoRoom (null)
leftRoomOf(st, socketId) == Get(st.socketToRoom, socketId)

leaveCurrentRoomMutant(st, socketId) ==
    IF ~Has(st.socketToRoom, socketId) THEN st
    ELSE [st EXCEPT !.socketToRoom = MapDelete(@, socketId)]

leaveCurrentRoomKeepsEntry(st, socketId) ==
    IF ~Has(st.socketToRoom, socketId) THEN st
    ELSE LET currentRoom == st.socketToRoom[socketId]
         IN  IF Has(st.rooms, currentRoom)
             THEN LET room == st.rooms[currentRoom] \ {socketId}
                      a == [st EXCEPT !.rooms[currentRoom] = room]
                      b == EmitEach(a, InOrder(room, 1), "user:left",
                                    socketId, Str(currentRoom))
                  IN  cleanupRoom(b, currentRoom)
             ELSE st

leaveCurrentRoom(st, socketId) ==
    IF ~Has(st.socketToRoom, socketId) THEN st
    ELSE LET currentRoom == st.socketToRoom[socketId]
             st1 == IF Has(st.rooms, currentRoom)
                    THEN LET room == st.rooms[currentRoom] \ {socketId}
                             a == [st EXCEPT !.rooms[currentRoom] = room]
                             b == EmitEach(a, InOrder(room, 1), "user:left",
                                           socketId, Str(currentRoom))
                         IN  cleanupRoom(b, currentRoom)
                    ELSE st
         IN  [st1 EXCEPT !.socketToRoom = MapDelete(@, socketId)]

\* --------------------------------------------------------------- payloads
\* what a client sends with an event: nothing at all, or an object whose
\* fields are JS values (a field the event does not read is undefined)
Payload(roomId, to, data) == [has |-> TRUE, roomId |-> roomId, to |-> to, data |-> data]
NoPayload == [has |-> FALSE, roomId |-> Undefined, to |-> Undefined, data |-> Undefined]

\* idle is now - lastActivity; connectedAt is written once and never read;
\* activity is undefined until user:activity sets it
Profile == [idle |-> 0, currentRoom |-> NoRoom, activity |-> Undefined]

\* ---------------------------------------------------------------- handlers
roomIsFullMutant(st, clean, id) ==
    /\ Has(st.rooms, clean)
    /\ Cardinality(st.rooms[clean]) > 2
    /\ id \notin st.rooms[clean]

roomIsFullForAll(st, clean, id) ==
    /\ Has(st.rooms, clean)
    /\ Cardinality(st.rooms[clean]) >= 2

\* existingRoom && existingRoom.size >= 2 && !existingRoom.has(socket.id)
roomIsFull(st, clean, id) ==
    /\ Has(st.rooms, clean)
    /\ Cardinality(st.rooms[clean]) >= 2
    /\ id \notin st.rooms[clean]

rejectFullMutant(st, id) ==
    SocketEmit(leaveCurrentRoom(st, id), id, "error", NoId, Str(<<"Room is full">>))

\* socket.emit('error', { message: 'Room is full' }); return, before any leave
rejectFull(st, id) == SocketEmit(st, id, "error", NoId, Str(<<"Room is full">>))

\* Array.from(room).filter(id => id !== socket.id)
otherUsers(st, id, clean) == InOrder(st.rooms[clean] \ {id}, 1)

notifyJoinedMutant(st, id, clean) ==
    EmitEach(st, otherUsers(st, id, clean), "user:joined", id, Str(clean))

\* if (otherUsers.length > 0): user:joined naming otherUsers[0] to the
\* joiner, then user:joined naming the joiner to each of the others
notifyJoined(st, id, clean) ==
    IF Len(otherUsers(st, id, clean)) > 0
    THEN EmitEach(SocketEmit(st, id, "user:joined",
                             otherUsers(st, id, clean)[1], Str(clean)),
                  otherUsers(st, id, clean), "user:joined", id, Str(clean))
    ELSE st

\* socket.on('room:join', ({ roomId }) => { try { ... } catch ... })
roomJoin(st, id, roomId) ==
    IF InvalidRoomId(roomId)
    THEN SocketEmit(st, id, "error", NoId, Str(<<"Invalid room ID">>))
    ELSE
    LET clean == cleanRoomId(roomId.s)
    IN  IF roomIsFull(st, clean, id)
        THEN rejectFull(st, id)
        ELSE
        LET st1 == leaveCurrentRoom(st, id)
            \* socket.join(cleanRoomId); socketToRoom.set(...)
            st2 == [st1 EXCEPT !.adapter[id] = @ \cup {clean},
                               !.socketToRoom = MapSet(@, id, clean)]
            st3 == IF Has(st2.rooms, clean) THEN st2
                   ELSE [st2 EXCEPT !.rooms = MapSet(@, clean, {})]
            st4 == [st3 EXCEPT !.rooms[clean] = @ \cup {id}]
            st5 == IF Has(st4.userProfiles, id)
                   THEN [st4 EXCEPT !.userProfiles[id].idle = 0,
                                    !.userProfiles[id].currentRoom = clean]
                   ELSE st4
            st6 == notifyJoined(st5, id, clean)
        IN  SocketEmit(st6, id, "room:joined", NoId, Str(clean))

\* callerRoom = socketToRoom.get(socket.id), receiverRoom = socketToRoom.get(to):
\* !callerRoom || callerRoom !== receiverRoom
callerRoom(st, id) == Get(st.socketToRoom, id)
receiverRoom(st, to) == IF IsString(to) THEN Get(st.socketToRoom, to.s) ELSE NoRoom

notSameRoomMutant(st, id, to) == callerRoom(st, id) # receiverRoom(st, to)

notSameRoom(st, id, to) ==
    \/ callerRoom(st, id) = NoRoom
    \/ callerRoom(st, id) # receiverRoom(st, to)

forwardCallMutant(st, id, to, offer) ==
    SocketToEmit(st, id, to, "incoming:call", to.s, offer)

\* socket.to(to).emit('incoming:call', { from: socket.id, offer, timestamp })
forwardCall(st, id, to, offer) ==
    SocketToEmit(st, id, to, "incoming:call", id, offer)

outgoingCallMutant(st, id, to, offer) ==
    IF ~Truthy(to)
    THEN SocketEmit(st, id, "error", NoId, Str(<<"Invalid call parameters">>))
    ELSE
        IF notSameRoom(st, id, to)
        THEN SocketEmit(st, id, "error", NoId, Str(<<"Users are not in the same room">>))
        ELSE forwardCall(st, id, to, offer)

\* socket.on('outgoing:call', ({ to, offer }) => { try { ... } catch ... })
outgoingCall(st, id, to, offer) ==
    IF ~Truthy(to) \/ ~Truthy(offer)
    THEN SocketEmit(st, id, "error", NoId, Str(<<"Invalid call parameters">>))
    ELSE
        IF notSameRoom(st, id, to)
        THEN SocketEmit(st, id, "error", NoId, Str(<<"Users are not in the same room">>))
        ELSE forwardCall(st, id, to, offer)

\* socket.on('call:accepted', ({ to, answer }) => { try { ... } catch ... })
callAccepted(st, id, to, answer) ==
    IF ~Truthy(to) \/ ~Truthy(answer)
    THEN SocketEmit(st, id, "error", NoId, Str(<<"Invalid answer parameters">>))
    ELSE IF ~IsString(to)
         \* to.substring is not a function: caught
         THEN SocketEmit(st, id, "error", NoId, Str(<<"Failed to accept call">>))
         ELSE SocketToEmit(st, id, to, "call:accepted", id, answer)

iceCandidateSameRoom(st, id, to, candidate) ==
    IF ~Truthy(candidate) \/ ~Truthy(to) \/ notSameRoom(st, id, to) THEN st
    ELSE SocketToEmit(st, id, to, "ice:candidate", id, candidate)

iceCandidateMutant(st, id, to, candidate) ==
    IF ~Truthy(to) THEN st
    ELSE SocketToEmit(st, id, to, "ice:candidate", id, candidate)

\* socket.on('ice:candidate', ({ candidate, to }) => { try { ... } catch ... })
iceCandidate(st, id, to, candidate) ==
    IF ~Truthy(candidate) \/ ~Truthy(to) THEN st
    ELSE SocketToEmit(st, id, to, "ice:candidate", id, candidate)

callEndedMutant(st, id, to) ==
    IF to.t = "number" THEN st
    ELSE IF Truthy(to)
         THEN SocketToEmit(st, id, to, "call:ended", NoId, Undefined)
         ELSE st

\* socket.on('call:ended', ({ to }) => { try { ... } catch ... })
callEnded(st, id, to) ==
    IF to.t = "number" THEN st          \* to?.substring(...) throws: caught
    ELSE IF Truthy(to)
         THEN SocketToEmit(st, id, to, "call:ended", id, Undefined)
         ELSE st

\* socket.on('ping') and socket.on('user:activity')
touch(st, id) ==
    IF Has(st.userProfiles, id)
    THEN [st EXCEPT !.userProfiles[id].idle = 0]
    ELSE st

pingMutant(st, id) ==
    LET st1 == SocketEmit(st, id, "pong", NoId, Undefined)
    IN  [st1 EXCEPT !.userProfiles = MapSet(@, id, Profile)]

ping(st, id) == touch(SocketEmit(st, id, "pong", NoId, Undefined), id)

\* socket.on('user:activity', (data) => { ... profile.activity = data })
userActivity(st, id, data) ==
    IF Has(st.userProfiles, id)
    THEN [st EXCEPT !.userProfiles[id].idle = 0,
                    !.userProfiles[id].activity = data]
    ELSE st

disconnectMutant(st, id) ==
    [st EXCEPT !.connected = @ \ {id},
               !.adapter = MapDelete(@, id),
               !.userProfiles = MapDelete(@, id)]

\* socket.on('disconnect'): the socket has left its adapter rooms already
disconnect(st, id) ==
    LET st0 == [st EXCEPT !.connected = @ \ {id},
                          !.adapter = MapDelete(@, id)]
        leftRoom == leftRoomOf(st0, id)
        st1 == leaveCurrentRoom(st0, id)
        st2 == [st1 EXCEPT !.userProfiles = MapDelete(@, id)]
    IN  IF leftRoom # NoRoom /\ Has(st2.rooms, leftRoom) /\ st2.rooms[leftRoom] # {}
        THEN EmitEach(st2, InOrder(st2.rooms[leftRoom], 1), "user:disconnected",
                      id, Str(leftRoom))
        ELSE st2

\* io.emit(ev, ...): every connected socket
IoEmit(st, ev, who, data) == Push(st, Event(st.connected, ev, who, data))

\* io.close(): socket._onclose for every socket, in the order they connected;
\* each runs the socket's disconnect handler
RECURSIVE closeAll(_, _)
closeAll(st, ids) ==
    IF ids = <<>> THEN st
    ELSE closeAll(disconnect(st, Head(ids)), Tail(ids))

clearIntervalMutant(t) == t

\* clearInterval(cleanupInterval)
clearInterval(t) == "cleared"

\* io.emit('server:shutdown', ...); io.close(...)
sigint(st) ==
    closeAll(IoEmit(st, "server:shutdown", NoId, Undefined),
             InOrder(st.connected, 1))

isStaleMutant(profile) == profile.idle >= maxInactiveTime

\* now - lastActivity > maxInactiveTime
isStale(profile) == profile.idle > maxInactiveTime

\* userProfiles.forEach(...) of the cleanup interval, in insertion order
RECURSIVE cleanupUsers(_, _)
cleanupUsers(st, ids) ==
    IF ids = <<>> THEN st
    ELSE LET socketId == Head(ids)
         IN  IF isStale(st.userProfiles[socketId])
             THEN cleanupUsers(
                      leaveCurrentRoom(
                          [st EXCEPT !.userProfiles = MapDelete(@, socketId)],
                          socketId),
                      Tail(ids))
             ELSE cleanupUsers(st, Tail(ids))

\* rooms.forEach((room, roomId) => { if (room.size === 0) rooms.delete(roomId) })
cleanupRooms(st) ==
    [st EXCEPT !.rooms = [r \in {k \in DOMAIN st.rooms : st.rooms[k] # {}} |-> st.rooms[r]]]

cleanupIntervalMutant(st) ==
    cleanupRooms([st EXCEPT !.userProfiles =
                     [id \in {k \in DOMAIN @ : ~isStale(@[k])} |-> @[id]]])

cleanupInterval(st) ==
    cleanupRooms(cleanupUsers(st, InOrder(DOMAIN st.userProfiles, 1)))

\* ------------------------------------------------------------------ inputs
\* room ids that are already in normal form
RoomIdInputs == {Str(<<"a">>), Str(<<"b">>)}
ToInputs == {Undefined, Num5, Str(<<"a">>)} \cup {Str(s) : s \in SocketIds}
DataInputs == {Undefined, Str(<<"o1">>), Str(<<"o2">>)}

\* all strings over the alphabet of length at most n
Alphabet == {"a", "A", " "}
RECURSIVE Strings(_)
Strings(n) == IF n = 0 THEN {<<>>}
              ELSE LET S == Strings(n - 1)
                   IN  S \cup {Append(s, ch) : s \in S, ch \in Alphabet}
RawRoomIds == {Undefined, Num5} \cup {Str(s) : s \in Strings(MaxLen)}

JoinPayloads == {NoPayload} \cup {Payload(r, Undefined, Undefined) : r \in RoomIdInputs}
RawJoinPayloads == {Payload(r, Undefined, Undefined) : r \in RawRoomIds}
SignalPayloads == {NoPayload} \cup {Payload(Undefined, to, d) : to \in ToInputs, d \in DataInputs}
Empty == Payload(Undefined, Undefined, Undefined)
RejectJoinPayloads ==
    {Payload(r, Undefined, Undefined) :
        r \in RoomIdInputs \cup {Undefined, Num5, Str(<<" ">>)}}
RejectCallPayloads ==
    {Payload(Undefined, to, d) : to \in {Undefined, Str(SocketId(1)), Str(SocketId(2))},
                                 d \in {Undefined, Str(<<"o1">>)}}
\* destinations and payloads of the relayed events between MaxPeers sockets
PeerInputs == {Undefined, Num5, Str(<<"a">>)} \cup {Str(SocketId(i)) : i \in 1..MaxPeers}
RelayPayloads == {NoPayload} \cup {Payload(Undefined, to, d) :
                                      to \in PeerInputs, d \in {Undefined, Str(<<"o1">>)}}
EndPayloads == {NoPayload} \cup {Payload(Undefined, to, Undefined) : to \in PeerInputs}
ActivityInputs == {Undefined, Str(<<"o1">>)}

\* ------------------------------------------------------------------ actions
Init ==
    /\ proc = "running"
    /\ nextId = 1
    /\ connected = {}
    /\ adapter = EmptyMap
    /\ rooms = EmptyMap
    /\ socketToRoom = EmptyMap
    /\ userProfiles = EmptyMap
    /\ joins = 0
    /\ timer = "set"
    /\ last = [op |-> "listen", id |-> NoId, p |-> NoPayload]
    /\ sent = <<>>
    /\ joinedAs = EmptyMap
    /\ roomJoined = {}

Admitted(evs) == \E i \in 1..Len(evs) : evs[i].ev = "room:joined"

\* a handler ran to completion and left st
Commit(st, op, id, p) ==
    /\ connected' = st.connected
    /\ adapter' = st.adapter
    /\ rooms' = st.rooms
    /\ socketToRoom' = st.socketToRoom
    /\ userProfiles' = st.userProfiles
    /\ sent' = st.sent
    /\ last' = [op |-> op, id |-> id, p |-> p]
    /\ joinedAs' = [x \in DOMAIN st.socketToRoom |->
                       IF op = "room:join" /\ x = id /\ Admitted(st.sent)
                       THEN p.roomId.s ELSE joinedAs[x]]
    /\ UNCHANGED <<proc, nextId, timer>>

\* a handler threw outside its try block: uncaughtException, process.exit(1)
Crash(op, id) ==
    /\ proc' = "exited"
    /\ connected' = {}
    /\ adapter' = EmptyMap
    /\ rooms' = EmptyMap
    /\ socketToRoom' = EmptyMap
    /\ userProfiles' = EmptyMap
    /\ sent' = <<>>
    /\ last' = [op |-> op, id |-> id, p |-> NoPayload]
    /\ joinedAs' = EmptyMap
    /\ UNCHANGED <<nextId, timer>>

\* the destructuring parameter throws on a missing payload, before the try
Handle(op, id, p, st) ==
    IF p.has THEN Commit(st, op, id, p) ELSE Crash(op, id)

\* io.on('connection', socket => { userProfiles.set(socket.id, ...) ... })
Connect(max) ==
    /\ proc = "running"
    /\ nextId <= max
    /\ LET id == SocketId(nextId)
       IN  /\ connected' = connected \cup {id}
           /\ adapter' = MapSet(adapter, id, {id})
           /\ userProfiles' = MapSet(userProfiles, id, Profile)
           /\ last' = [op |-> "connection", id |-> id, p |-> Empty]
    /\ nextId' = nextId + 1
    /\ sent' = <<>>
    /\ UNCHANGED <<proc, rooms, socketToRoom, joins, timer, joinedAs, roomJoined>>

RoomJoin(id, p, max) ==
    /\ proc = "running" /\ id \in connected
    /\ joins < max
    /\ joins' = joins + 1
    /\ Handle("room:join", id, p, roomJoin(State, id, p.roomId))
    /\ UNCHANGED roomJoined

OutgoingCall(id, p) ==
    /\ proc = "running" /\ id \in connected
    /\ Handle("outgoing:call", id, p, outgoingCall(State, id, p.to, p.data))
    /\ UNCHANGED <<joins, roomJoined>>

CallAccepted(id, p) ==
    /\ proc = "running" /\ id \in connected
    /\ Handle("call:accepted", id, p, callAccepted(State, id, p.to, p.data))
    /\ UNCHANGED <<joins, roomJoined>>

IceCandidate(id, p) ==
    /\ proc = "running" /\ id \in connected
    /\ Handle("ice:candidate", id, p, iceCandidate(State, id, p.to, p.data))
    /\ UNCHANGED <<joins, roomJoined>>

CallEnded(id, p) ==
    /\ proc = "running" /\ id \in connected
    /\ Handle("call:ended", id, p, callEnded(State, id, p.to))
    /\ UNCHANGED <<joins, roomJoined>>

Ping(id) ==
    /\ proc = "running" /\ id \in connected
    /\ Commit(ping(State, id), "ping", id, Empty)
    /\ UNCHANGED <<joins, roomJoined>>

UserActivity(id, data) ==
    /\ proc = "running" /\ id \in connected
    /\ Commit(userActivity(State, id, data), "user:activity", id,
              Payload(Undefined, Undefined, data))
    /\ UNCHANGED <<joins, roomJoined>>

Disconnect(id) ==
    /\ proc = "running" /\ id \in connected
    /\ Commit(disconnect(State, id), "disconnect", id, Empty)
    /\ UNCHANGED <<joins, roomJoined>>

\* one run of the cleanup interval: the timer fires until it is cleared or
\* the process is gone
Cleanup ==
    /\ proc # "exited" /\ timer = "set"
    /\ Commit(cleanupInterval(State), "cleanup", NoId, Empty)
    /\ UNCHANGED <<joins, roomJoined>>

\* process.on('SIGINT'): the handler up to the return of io.close
Shutdown ==
    /\ proc = "running"
    /\ proc' = "closing"
    /\ timer' = clearInterval(timer)
    /\ LET st == sigint(State)
       IN  /\ connected' = st.connected
           /\ adapter' = st.adapter
           /\ rooms' = st.rooms
           /\ socketToRoom' = st.socketToRoom
           /\ userProfiles' = st.userProfiles
           /\ sent' = st.sent
    /\ last' = [op |-> "SIGINT", id |-> NoId, p |-> Empty]
    /\ joinedAs' = EmptyMap
    /\ UNCHANGED <<nextId, joins, roomJoined>>

\* the callbacks of io.close and server.close: process.exit(0)
Exit ==
    /\ proc = "closing"
    /\ proc' = "exited"
    /\ UNCHANGED <<nextId, connected, adapter, rooms, socketToRoom,
                   userProfiles, joins, timer, last, sent, joinedAs, roomJoined>>

\* time passes: every profile is one unit older
Tick ==
    /\ proc = "running"
    /\ \E id \in DOMAIN userProfiles : userProfiles[id].idle < MaxIdle
    /\ userProfiles' = [id \in DOMAIN userProfiles |->
                           [userProfiles[id] EXCEPT !.idle = IF @ < MaxIdle THEN @ + 1 ELSE @]]
    /\ UNCHANGED <<proc, nextId, connected, adapter, rooms, socketToRoom,
                   joins, timer, last, sent, joinedAs, roomJoined>>

\* rooms, presence and the cleanup interval
Next ==
    \/ Connect(MaxSockets)
    \/ \E id \in SocketIds, p \in JoinPayloads : RoomJoin(id, p, MaxSweepJoins)
    \/ \E id \in SocketIds : Disconnect(id)
    \/ Cleanup
    \/ Tick

Spec == Init /\ [][Next]_vars

\* joining and leaving rooms, no sweep
NextJoin ==
    \/ Connect(MaxSockets)
    \/ \E id \in SocketIds, p \in JoinPayloads : RoomJoin(id, p, MaxJoins)
    \/ \E id \in SocketIds : Disconnect(id)

SpecJoin == Init /\ [][NextJoin]_vars

\* call set-up between the sockets of a room
NextCall ==
    \/ Connect(MaxPeers)
    \/ \E id \in SocketIds, p \in JoinPayloads : RoomJoin(id, p, MaxPairJoins)
    \/ \E id \in SocketIds, p \in SignalPayloads : OutgoingCall(id, p)
    \/ \E id \in SocketIds, p \in SignalPayloads : CallAccepted(id, p)
    \/ \E id \in SocketIds : Disconnect(id)

SpecCall == Init /\ [][NextCall]_vars

\* room:join with raw room ids of every shape
NextClean ==
    \/ Connect(MaxPeers)
    \/ \E id \in SocketIds, p \in RawJoinPayloads : RoomJoin(id, p, MaxPairJoins)

SpecClean == Init /\ [][NextClean]_vars

\* every client event between the sockets of a room
NextSignal ==
    \/ Connect(MaxPeers)
    \/ \E id \in SocketIds, p \in JoinPayloads : RoomJoin(id, p, MaxPairJoins)
    \/ \E id \in SocketIds, p \in RelayPayloads : OutgoingCall(id, p)
    \/ \E id \in SocketIds, p \in RelayPayloads : CallAccepted(id, p)
    \/ \E id \in SocketIds, p \in RelayPayloads : IceCandidate(id, p)
    \/ \E id \in SocketIds, p \in EndPayloads : CallEnded(id, p)
    \/ \E id \in SocketIds : Ping(id)
    \/ \E id \in SocketIds : Disconnect(id)

SpecSignal == Init /\ [][NextSignal]_vars

\* activity and the sweep
NextIdle ==
    \/ Connect(MaxPeers)
    \/ \E id \in SocketIds, p \in JoinPayloads : RoomJoin(id, p, MaxPairJoins)
    \/ \E id \in SocketIds : Ping(id)
    \/ \E id \in SocketIds, data \in ActivityInputs : UserActivity(id, data)
    \/ Cleanup
    \/ Tick

SpecIdle == Init /\ [][NextIdle]_vars

\* one run of two clients: both join the same room under different
\* spellings, c1 calls c2, c2 accepts, c2 disconnects, c1 disconnects
c1 == SocketId(1)
c2 == SocketId(2)
DemoRoomIds == {Str(<<"A">>), Str(<<"a", " ">>), Str(<<" ", "A">>),
                Str(<<"a">>), Str(<<"A", " ">>), Str(<<" ", "a">>)}
Offers == {Str(<<"o1">>), Str(<<"o2">>)}

NextDemo ==
    \/ Connect(2)
    \/ /\ nextId = 3 /\ joins = 0
       /\ \E r \in DemoRoomIds : RoomJoin(c1, Payload(r, Undefined, Undefined), 2)
    \/ /\ joins = 1
       /\ \E r \in DemoRoomIds : RoomJoin(c2, Payload(r, Undefined, Undefined), 2)
    \/ /\ joins = 2 /\ last.op = "room:join"
       /\ \E o \in Offers : OutgoingCall(c1, Payload(Undefined, Str(c2), o))
    \/ /\ last.op = "outgoing:call"
       /\ \E o \in Offers : CallAccepted(c2, Payload(Undefined, Str(c1), o))
    \/ /\ last.op = "call:accepted"
       /\ Disconnect(c2)
    \/ /\ last.op = "disconnect" /\ last.id = c2
       /\ Disconnect(c1)

SpecDemo == Init /\ [][NextDemo]_vars

\* the messages the server rejects: room ids of every kind into rooms that
\* may be full, calls and answers with and without their parameters
NextReject ==
    \/ Connect(MaxSockets)
    \/ \E id \in SocketIds, p \in RejectJoinPayloads : RoomJoin(id, p, MaxJoins)
    \/ \E id \in SocketIds, p \in RejectCallPayloads : OutgoingCall(id, p)
    \/ \E id \in SocketIds, p \in RejectCallPayloads : CallAccepted(id, p)

SpecReject == Init /\ [][NextReject]_vars

\* the sweep and the shutdown of the server
NextStop ==
    \/ Connect(MaxPeers)
    \/ \E id \in SocketIds, p \in JoinPayloads : RoomJoin(id, p, MaxSweepJoins)
    \/ \E id \in SocketIds : Disconnect(id)
    \/ Cleanup
    \/ Tick
    \/ Shutdown
    \/ Exit

SpecStop == Init /\ [][NextStop]_vars

\* what a user types into the room field of App.jsx
ClientRoomIds == {<<"a">>, <<"b">>, <<"A", " ">>, <<" ">>}

\* App.jsx joinRoom, on a connected client whose camera is available: past
\* the guard on roomId.trim() it emits room:join with { roomId: roomId.trim() }
\* and calls setRoomJoined(true) at once; the server then handles the message.
\* The client listens to no 'error' and no 'room:joined' event and never
\* calls setRoomJoined(false).
JoinRoom(id, roomId, max) ==
    /\ proc = "running" /\ id \in connected
    /\ trim(roomId) # <<>>
    /\ joins < max
    /\ joins' = joins + 1
    /\ LET p == Payload(Str(trim(roomId)), Undefined, Undefined)
       IN  Handle("room:join", id, p, roomJoin(State, id, p.roomId))
    /\ roomJoined' = roomJoined \cup {id}

\* clients of App.jsx joining rooms and going away
NextClient ==
    \/ Connect(MaxSockets)
    \/ \E id \in SocketIds, r \in ClientRoomIds : JoinRoom(id, r, MaxJoins)
    \/ \E id \in SocketIds : Disconnect(id)

SpecClient == Init /\ [][NextClient]_vars

\* ------------------------------------------------------------- properties
RoomIsFullError(id) == Event({id}, "error", NoId, Str(<<"Room is full">>))
InvalidRoomError(id) == Event({id}, "error", NoId, Str(<<"Invalid room ID">>))
NotSameRoomError(id) == Event({id}, "error", NoId, Str(<<"Users are not in the same room">>))

\* the step handled a room:join of socket id
JoinStep(id) == /\ joins' = joins + 1
                /\ last'.op = "room:join" /\ last'.id = id /\ last'.p.has

\* the room ids of a set of string values
RoomsIn(vals) == {v.s : v \in vals}

\* the rooms whose member set holds id
RoomsOf(rms, id) == {r \in DOMAIN rms : id \in rms[r]}

\* both sockets are mapped to a room and it is the same room
Colocated(A, B) == /\ Has(socketToRoom, A) /\ Has(socketToRoom, B)
                   /\ socketToRoom[A] = socketToRoom[B]

\* the positions of `sent` where socket m receives an event of the kinds
Received(evs, m, kinds) == {i \in 1..Len(evs) : m \in evs[i].rcpt /\ evs[i].ev \in kinds}

\* C1: in every reachable state, whatever the interleaving of room:join,
\* disconnect and cleanup sweeps, every room of the room table has at most
\* 2 members.
C1_AtMostTwoMembers == \A r \in DOMAIN rooms : Cardinality(rooms[r]) <= 2

\* a sweep has run, a room holds 2 sockets, and a third connected socket
\* was a member of that room before
C1_Witness ==
    /\ last.op = "cleanup"
    /\ \E r \in DOMAIN rooms :
          /\ Cardinality(rooms[r]) = 2
          /\ \E id \in connected \ rooms[r] : r \in adapter[id]

\* C2: a socket is a member of at most one room in every reachable state,
\* and a room:join admitted to another room than the one the socket was in
\* leaves it a member of the new room only.
C2_AtMostOneRoom == \A id \in SocketIds : Cardinality(RoomsOf(rooms, id)) <= 1

C2_JoinMoves ==
    \A id \in SocketIds, r1 \in DOMAIN rooms :
        (/\ id \in rooms[r1]
         /\ JoinStep(id) /\ Admitted(sent')
         /\ socketToRoom'[id] # r1)
        => RoomsOf(rooms', id) = {socketToRoom'[id]}

C2_OneRoomAtATime == [](C2_AtMostOneRoom) /\ [][C2_JoinMoves]_vars

\* the socket joined b after having been in a, and a still has a member
C2_Witness ==
    /\ last.op = "room:join" /\ Admitted(sent)
    /\ Has(socketToRoom, last.id)
    /\ socketToRoom[last.id] = <<"b">>
    /\ <<"a">> \in adapter[last.id]
    /\ Has(rooms, <<"a">>)

\* C3: a room:join to a room that has 2 members, by a socket that is not
\* one of them, sends 'Room is full' to the joiner and changes the
\* membership of no room.
C3_Rejection ==
    \A id \in connected, r \in DOMAIN rooms :
        (/\ Cardinality(rooms[r]) >= 2 /\ id \notin rooms[r]
         /\ JoinStep(id) /\ last'.p.roomId = Str(r))
        => /\ sent' = <<RoomIsFullError(id)>>
           /\ rooms' = rooms
           /\ socketToRoom' = socketToRoom

C3_FullRoomRejects == [][C3_Rejection]_vars

\* the rejected joiner is a member of another room
C3_Witness ==
    /\ last.op = "room:join"
    /\ sent = <<RoomIsFullError(last.id)>>
    /\ Has(socketToRoom, last.id)

\* the last step handled `op` from socket A with destination B and a
\* payload (offer or answer) that is present
Signalled(op, A, B) ==
    /\ last.op = op /\ last.id = A /\ last.p.has
    /\ last.p.to = Str(B) /\ Truthy(last.p.data)

\* C4: an outgoing:call from A to B with destination and offer present, when
\* A and B are not mapped to the same room (A or B may be in no room), sends
\* the 'not in the same room' error to A and no incoming:call to anyone.
C4_CallNeedsSameRoom ==
    \A A \in connected, B \in SocketIds :
        (Signalled("outgoing:call", A, B) /\ ~Colocated(A, B))
        => /\ sent = <<NotSameRoomError(A)>>
           /\ \A m \in SocketIds : Received(sent, m, {"incoming:call"}) = {}

\* the caller and the callee are members of different rooms
C4_Witness ==
    \E A \in connected, B \in connected :
        /\ Signalled("outgoing:call", A, B)
        /\ Has(socketToRoom, A) /\ Has(socketToRoom, B)
        /\ socketToRoom[A] # socketToRoom[B]
        /\ sent = <<NotSameRoomError(A)>>

\* C5: when A and B are members of the same room and A sends outgoing:call
\* with destination B and an offer, B receives exactly one incoming:call;
\* its `from` is A's socket id and its offer is the offer A sent.
C5_CallReachesPeer ==
    \A A \in connected, B \in connected :
        (A # B /\ Signalled("outgoing:call", A, B) /\ Colocated(A, B))
        => /\ Cardinality(Received(sent, B, {"incoming:call"})) = 1
           /\ \A i \in Received(sent, B, {"incoming:call"}) :
                 sent[i].who = A /\ sent[i].data = last.p.data

\* an offer forwarded to the peer
C5_Witness ==
    \E A \in connected, B \in connected :
        /\ A # B
        /\ Signalled("outgoing:call", A, B)
        /\ last.p.data = Str(<<"o2">>)
        /\ sent = <<Event({B}, "incoming:call", A, Str(<<"o2">>))>>

\* C6: a call:accepted from A to B, when A and B are not members of the same
\* room, sends an error to A and forwards no call:accepted to B.
C6_AcceptNeedsSameRoom ==
    \A A \in connected, B \in connected :
        (Signalled("call:accepted", A, B) /\ ~Colocated(A, B))
        => /\ Received(sent, A, {"error"}) # {}
           /\ Received(sent, B, {"call:accepted"}) = {}

\* C7: when a socket leaves or disconnects from a room of 2 members, the
\* remaining member receives exactly one departure notification (user:left
\* or user:disconnected) naming it, and the room stays with that one member.
Departures == {"user:left", "user:disconnected"}

C7_Departure ==
    \A id \in connected, r \in DOMAIN rooms :
        (/\ Cardinality(rooms[r]) = 2 /\ id \in rooms[r]
         /\ last'.id = id
         /\ \/ last'.op = "disconnect" /\ id \notin connected'
            \/ JoinStep(id) /\ Admitted(sent') /\ socketToRoom'[id] # r)
        => \A m \in rooms[r] \ {id} :
              /\ Cardinality({i \in Received(sent', m, Departures) : sent'[i].who = id}) = 1
              /\ Has(rooms', r) /\ rooms'[r] = {m}

C7_OneDepartureNotice == [][C7_Departure]_vars

\* C8: no room of the room table has an empty member set once a handler or
\* a sweep has completed: the entry goes when its last member departs.
C8_NoEmptyRoom == \A r \in DOMAIN rooms : rooms[r] # {}

\* the only member of a moved on to b: a is gone from the room table
C8_Witness ==
    /\ last.op = "room:join"
    /\ Has(socketToRoom, last.id) /\ socketToRoom[last.id] = <<"b">>
    /\ <<"a">> \in adapter[last.id]
    /\ ~Has(rooms, <<"a">>)

\* two letters that are the same but for case
SameLetter(x, y) == \/ x = y
                    \/ {x, y} = {"a", "A"}

AllSpaces(s) == \A i \in 1..Len(s) : s[i] = " "

\* the positions of s that hold no space
NonSpace(s) == {i \in 1..Len(s) : s[i] # " "}

\* s without the spaces before its first and after its last other character
Inner(s) == LET ns == NonSpace(s)
            IN  SubSeq(s, CHOOSE i \in ns : \A j \in ns : i <= j,
                          CHOOSE i \in ns : \A j \in ns : i >= j)

\* r1 and r2 differ only by letter case and leading or trailing whitespace
SameButCaseAndSpace(r1, r2) ==
    /\ NonSpace(r1) # {} /\ NonSpace(r2) # {}
    /\ Len(Inner(r1)) = Len(Inner(r2))
    /\ \A k \in 1..Len(Inner(r1)) : SameLetter(Inner(r1)[k], Inner(r2)[k])

\* C9: two raw room ids that differ only by letter case or by leading or
\* trailing whitespace resolve to the same room: two sockets admitted with
\* such ids are members of the same room.
C9_SameCanonicalRoom ==
    \A x \in DOMAIN joinedAs, y \in DOMAIN joinedAs :
        SameButCaseAndSpace(joinedAs[x], joinedAs[y])
        => /\ socketToRoom[x] = socketToRoom[y]
           /\ {x, y} \subseteq rooms[socketToRoom[x]]

\* " A" and "a " share a room
C9_Witness ==
    \E x \in DOMAIN joinedAs, y \in DOMAIN joinedAs :
        /\ joinedAs[x] = <<" ", "A">>
        /\ joinedAs[y] = <<"a", " ">>
        /\ rooms[socketToRoom[x]] = {x, y}

\* missing, not a string, empty or whitespace-only
BadRoomId(v) == \/ v.t = "undefined"
                \/ v.t # "string"
                \/ v.s = <<>>
                \/ AllSpaces(v.s)

\* C10: a room:join whose roomId is missing, not a string, empty or
\* whitespace-only sends 'Invalid room ID' to the sender and leaves the room
\* table, the socket-to-room map and the sender's current room unchanged.
C10_Rejection ==
    \A id \in connected :
        (JoinStep(id) /\ BadRoomId(last'.p.roomId))
        => /\ sent' = <<InvalidRoomError(id)>>
           /\ rooms' = rooms
           /\ socketToRoom' = socketToRoom
           /\ adapter' = adapter

C10_InvalidRoomRejected == [][C10_Rejection]_vars

\* a whitespace-only room id from a socket that is in a room
C10_Witness ==
    /\ last.op = "room:join"
    /\ last.p.roomId = Str(<<" ", " ">>)
    /\ sent = <<InvalidRoomError(last.id)>>
    /\ Has(socketToRoom, last.id)

\* C11: a room:join admitted to a room that then has 2 members sends
\* user:joined naming the member already there to the joiner and user:joined
\* naming the joiner to that member; a room:join admitted to a room with no
\* other member sends user:joined to no one.
JoinedNotice(to, who) ==
    \E i \in Received(sent', to, {"user:joined"}) : sent'[i].who = who

C11_Notices ==
    \A id \in connected :
        (JoinStep(id) /\ Admitted(sent'))
        => LET room == rooms'[socketToRoom'[id]]
           IN  /\ Cardinality(room) = 2
                  => \A m \in room \ {id} : /\ JoinedNotice(id, m)
                                             /\ JoinedNotice(m, id)
               /\ room = {id}
                  => \A m \in SocketIds : Received(sent', m, {"user:joined"}) = {}

C11_JoinNotifiesBoth == [][C11_Notices]_vars

\* the second member of room a has just been admitted and both were told
C11_Witness ==
    \E id \in connected, m \in connected :
        /\ id # m
        /\ last.op = "room:join" /\ last.id = id
        /\ Has(rooms, <<"a">>) /\ rooms[<<"a">>] = {id, m}
        /\ sent = << Event({id}, "user:joined", m, Str(<<"a">>)),
                     Event({m}, "user:joined", id, Str(<<"a">>)),
                     Event({id}, "room:joined", NoId, Str(<<"a">>)) >>

\* C12: a room:join by a socket that is already a member of the target
\* room is never answered with 'Room is full', also when the room has 2
\* members, and the room's member set after it is the set it was before.
C12_Rejoin ==
    \A id \in connected, r \in DOMAIN rooms :
        (/\ id \in rooms[r]
         /\ JoinStep(id) /\ last'.p.roomId = Str(r))
        => /\ Received(sent', id, {"error"}) = {}
           /\ Admitted(sent')
           /\ Has(rooms', r) /\ rooms'[r] = rooms[r]

C12_RejoinKeepsMembers == [][C12_Rejoin]_vars

\* a member of a room of 2 has joined it again: its peer saw it leave and
\* come back, and the room holds the same two sockets
C12_Witness ==
    \E id \in connected, m \in connected :
        /\ id # m
        /\ last.op = "room:join" /\ last.id = id
        /\ Has(rooms, <<"a">>) /\ rooms[<<"a">>] = {id, m}
        /\ Len(sent) = 4
        /\ sent[1] = Event({m}, "user:left", id, Str(<<"a">>))

\* the step is one run of the cleanup interval (a Tick changes an idle time)
SweepStep == /\ last'.op = "cleanup"
             /\ \A id \in DOMAIN userProfiles' : userProfiles'[id] = userProfiles[id]

\* the socket has a profile whose last activity is older than the threshold
Inactive(id) == Has(userProfiles, id) /\ userProfiles[id].idle > maxInactiveTime

\* the step sends socket m a departure notification naming id
DepartureNotice(m, id) ==
    \E i \in Received(sent', m, Departures) : sent'[i].who = id

\* the profile of m precedes that of id in the iteration of userProfiles
Precedes(m, id) == \E i \in 1..MaxSockets, j \in 1..MaxSockets :
                      i < j /\ SocketId(i) = m /\ SocketId(j) = id

\* C13: a socket with a profile and no activity for longer than the
\* threshold has, after one sweep, no profile and is a member of no room,
\* and every peer it shared a room with has received a departure
\* notification naming it.
C13_Eviction ==
    \A id \in SocketIds :
        (SweepStep /\ Inactive(id))
        => /\ ~Has(userProfiles', id)
           /\ ~Has(socketToRoom', id)
           /\ RoomsOf(rooms', id) = {}
           /\ \A r \in RoomsOf(rooms, id) : \A m \in rooms[r] \ {id} :
                  DepartureNotice(m, id)

C13_SweepEvictsAndNotifies == [][C13_Eviction]_vars

\* C13 as amended: the same, but for a peer that the same sweep has evicted
\* before the socket (an inactive peer whose profile comes first): that peer
\* has left the room already and is told nothing.
C13_EvictionAmended ==
    \A id \in SocketIds :
        (SweepStep /\ Inactive(id))
        => /\ ~Has(userProfiles', id)
           /\ ~Has(socketToRoom', id)
           /\ RoomsOf(rooms', id) = {}
           /\ \A r \in RoomsOf(rooms, id) : \A m \in rooms[r] \ {id} :
                  \/ Inactive(m) /\ Precedes(m, id)
                  \/ DepartureNotice(m, id)

C13_SweepEvictsAndNotifiesRest == [][C13_EvictionAmended]_vars

\* a sweep evicted a socket that is still connected, and its peer, still in
\* the room, was told that it left
C13_Witness ==
    /\ last.op = "cleanup"
    /\ \E id \in connected, m \in connected :
          /\ id # m
          /\ ~Has(userProfiles, id) /\ ~Has(socketToRoom, id)
          /\ Has(socketToRoom, m) /\ socketToRoom[m] \in adapter[id]
          /\ sent = <<Event({m}, "user:left", id, Str(socketToRoom[m]))>>

\* the events a client sends with a payload
ClientEvents == {"room:join", "outgoing:call", "call:accepted",
                 "ice:candidate", "call:ended"}

\* the events the relay forwards to a peer
Forwarded == {"incoming:call", "call:accepted", "ice:candidate", "call:ended"}

\* no socket receives a forwarded event in this step
NothingForwarded == \A m \in SocketIds : Received(sent', m, Forwarded) = {}

\* C14: handling a client event of any kind with any payload, an absent
\* payload and fields of the wrong type included, neither ends the server
\* process nor changes the room membership of another socket.
C14_Contained ==
    last'.op \in ClientEvents
    => /\ proc' = "running"
       /\ \A o \in connected \ {last'.id} :
              /\ Get(socketToRoom', o) = Get(socketToRoom, o)
              /\ RoomsOf(rooms', o) = RoomsOf(rooms, o)

C14_FaultsContained == [][C14_Contained]_vars

\* C15: an ice:candidate whose candidate is null or whose destination is
\* missing sends no error to the sender, forwards nothing to anyone and
\* leaves the server running.
C15_BadCandidateIgnored ==
    (/\ last.op = "ice:candidate" /\ last.p.has
     /\ ~Truthy(last.p.data) \/ ~Truthy(last.p.to))
    => sent = <<>> /\ proc = "running"

\* a null candidate addressed to the peer in the sender's room
C15_Witness ==
    \E A \in connected, B \in connected :
        /\ A # B /\ Colocated(A, B)
        /\ last.op = "ice:candidate" /\ last.id = A /\ last.p.has
        /\ last.p.to = Str(B) /\ last.p.data = Undefined
        /\ sent = <<>>

\* C16: a call:ended with a destination is forwarded to it as call:ended
\* tagged with the sender's id; a call:ended without destination forwards
\* nothing; neither sends an error to the sender.
C16_CallEndedRelayed ==
    (last.op = "call:ended" /\ last.p.has)
    => /\ Received(sent, last.id, {"error"}) = {}
       /\ \A i \in 1..Len(sent) : sent[i].ev = "call:ended" /\ sent[i].who = last.id
       /\ \A B \in connected \ {last.id} :
              last.p.to = Str(B)
              => sent = <<Event({B}, "call:ended", last.id, Undefined)>>
       /\ last.p.to = Undefined => sent = <<>>

\* a call:ended that reached a socket in another room than the sender's
C16_Witness ==
    \E A \in connected, B \in connected :
        /\ A # B /\ ~Colocated(A, B)
        /\ last.op = "call:ended" /\ last.id = A /\ last.p.to = Str(B)
        /\ sent = <<Event({B}, "call:ended", A, Undefined)>>

InvalidCallError(id) == Event({id}, "error", NoId, Str(<<"Invalid call parameters">>))
InvalidAnswerError(id) == Event({id}, "error", NoId, Str(<<"Invalid answer parameters">>))

\* C17: an outgoing:call without destination or without offer sends
\* 'Invalid call parameters' to the sender and forwards nothing, whether or
\* not the two are in the same room; a call:accepted without destination or
\* without answer sends an error to the sender and forwards nothing.
C17_MissingParamsRejected ==
    (/\ last.p.has
     /\ ~Truthy(last.p.to) \/ ~Truthy(last.p.data))
    => /\ last.op = "outgoing:call" => sent = <<InvalidCallError(last.id)>>
       /\ last.op = "call:accepted" => sent = <<InvalidAnswerError(last.id)>>

\* an outgoing:call without offer to the peer in the caller's room
C17_Witness ==
    \E A \in connected, B \in connected :
        /\ A # B /\ Colocated(A, B)
        /\ last.op = "outgoing:call" /\ last.id = A /\ last.p.has
        /\ last.p.to = Str(B) /\ last.p.data = Undefined
        /\ sent = <<InvalidCallError(A)>>

\* C18: leaveCurrentRoom is idempotent: applied a second time to the same
\* socket right after the first, it leaves the room table and the
\* socket-to-room map as the first application left them and it emits no
\* notification.
C18_LeaveIdempotent ==
    \A id \in SocketIds :
        LET once == leaveCurrentRoom(State, id)
            twice == leaveCurrentRoom([once EXCEPT !.sent = <<>>], id)
        IN  /\ twice.rooms = once.rooms
            /\ twice.socketToRoom = once.socketToRoom
            /\ twice.sent = <<>>

\* a sweep took the socket out of room a, where its peer still is, and its
\* room:join to b then ran leaveCurrentRoom for it a second time: the peer
\* was told nothing more
C18_Witness ==
    /\ last.op = "room:join" /\ last.id \in connected
    /\ ~Has(userProfiles, last.id)
    /\ adapter[last.id] = {last.id, <<"a">>, <<"b">>}
    /\ Has(rooms, <<"a">>) /\ last.id \notin rooms[<<"a">>]
    /\ sent = <<Event({last.id}, "room:joined", NoId, Str(<<"b">>))>>

\* the socket id was assigned to a connection
Existed(id) == \E i \in 1..(nextId - 1) : SocketId(i) = id

\* C19: once the disconnect of a socket has been handled, its id is in no
\* profile, in no socket-to-room entry and in no room's member set, in that
\* state and in every later one.
C19_DisconnectedIsGone ==
    \A id \in SocketIds :
        (Existed(id) /\ id \notin connected)
        => /\ ~Has(userProfiles, id)
           /\ ~Has(socketToRoom, id)
           /\ RoomsOf(rooms, id) = {}

\* a socket has disconnected from room a, where its peer stays
C19_Witness ==
    /\ last.op = "disconnect"
    /\ \E m \in connected :
          /\ Existed(last.id) /\ last.id \notin connected
          /\ Has(rooms, <<"a">>) /\ rooms[<<"a">>] = {m}
          /\ sent = << Event({m}, "user:left", last.id, Str(<<"a">>)),
                       Event({m}, "user:disconnected", last.id, Str(<<"a">>)) >>

\* C20: a signaling message addressed to the id of a socket that has
\* disconnected is dropped: no socket receives it and the server's state is
\* as before, so nothing is kept to deliver later.
C20_Dropped ==
    \A B \in SocketIds :
        (/\ last'.op \in ClientEvents \ {"room:join"} /\ last'.p.has
         /\ last'.p.to = Str(B)
         /\ Existed(B) /\ B \notin connected)
        => /\ NothingForwarded
           /\ UNCHANGED <<connected, adapter, rooms, socketToRoom, userProfiles>>

C20_GoneDestinationDropped == [][C20_Dropped]_vars

\* an answer from a socket in a room, addressed to a socket that has
\* disconnected
C20_Witness ==
    \E A \in connected, B \in SocketIds :
        /\ Existed(B) /\ B \notin connected
        /\ Signalled("call:accepted", A, B)
        /\ Has(socketToRoom, A)
        /\ sent = <<>>

\* C21: the SIGINT handler clears the cleanup interval first, so no sweep
\* runs once shutdown has begun; it sends server:shutdown to every socket
\* that is connected, and it sends it before it closes them.
C21_Shutdown ==
    /\ proc # "running" => last'.op # "cleanup"
    /\ (proc = "running" /\ proc' = "closing")
       => /\ connected' = {}
          /\ connected # {}
             => sent'[1] = Event(connected, "server:shutdown", NoId, Undefined)

C21_ShutdownNotifiesThenCloses == [][C21_Shutdown]_vars

\* the server has shut down with two sockets in a room: both got the notice
\* before the first was closed and the second was told that it left
C21_Witness ==
    /\ proc = "exited" /\ last.op = "SIGINT"
    /\ Len(sent) = 3
    /\ Cardinality(sent[1].rcpt) = 2 /\ sent[1].ev = "server:shutdown"
    /\ sent[2].ev = "user:left"

\* the step is a Tick: only the passing of time makes a profile older
TimePasses == \E x \in DOMAIN userProfiles \cap DOMAIN userProfiles' :
                 userProfiles'[x].idle > userProfiles[x].idle

\* the step handled `op` from socket id
FromSocket(op, id) == last'.op = op /\ last'.id = id /\ ~TimePasses

\* the profiles of all sockets but id
OtherProfiles(ups, id) == [x \in DOMAIN ups \ {id} |-> ups[x]]

\* C22: a ping or user:activity from a socket that has no profile creates
\* no profile and changes neither the room table nor the profile of another
\* socket; a ping from a socket with a profile changes nothing but the last
\* activity time of that profile (a user:activity changes nothing but that
\* profile).
C22_Touch ==
    \A id \in connected :
        (FromSocket("ping", id) \/ FromSocket("user:activity", id))
        => /\ rooms' = rooms /\ socketToRoom' = socketToRoom
           /\ OtherProfiles(userProfiles', id) = OtherProfiles(userProfiles, id)
           /\ ~Has(userProfiles, id) => ~Has(userProfiles', id)
           /\ (Has(userProfiles, id) /\ FromSocket("ping", id))
              => /\ Has(userProfiles', id)
                 /\ userProfiles' = [userProfiles EXCEPT ![id].idle = 0]

C23_DemoRun ==
    /\ (last.op = "room:join" /\ joins = 2)
       => /\ rooms = (<<"a">> :> {c1, c2})
          /\ \E i \in Received(sent, c1, {"user:joined"}) : sent[i].who = c2
          /\ \E i \in Received(sent, c2, {"user:joined"}) : sent[i].who = c1
    /\ last.op = "outgoing:call"
       => sent = <<Event({c2}, "incoming:call", c1, last.p.data)>>
    /\ last.op = "call:accepted"
       => sent = <<Event({c1}, "call:accepted", c2, last.p.data)>>
    /\ (last.op = "disconnect" /\ last.id = c2)
       => /\ \E i \in Received(sent, c1, {"user:disconnected"}) : sent[i].who = c2
          /\ rooms = (<<"a">> :> {c1})
    /\ (last.op = "disconnect" /\ last.id = c1)
       => ~Has(rooms, <<"a">>)

\* the end of the run: both have disconnected after the call
C23_Witness ==
    /\ last.op = "disconnect" /\ last.id = c1
    /\ joins = 2 /\ nextId = 3
    /\ connected = {} /\ rooms = EmptyMap /\ userProfiles = EmptyMap

\* the message the step handles is one the server rejects, and why
Rejection(id) ==
    LET p == last'.p
    IN  IF last'.id # id \/ ~p.has THEN "none"
        ELSE IF last'.op = "room:join"
        THEN IF BadRoomId(p.roomId) THEN "Invalid room ID"
             ELSE IF /\ Has(rooms, p.roomId.s)
                     /\ Cardinality(rooms[p.roomId.s]) >= 2
                     /\ id \notin rooms[p.roomId.s]
                  THEN "Room is full" ELSE "none"
        ELSE IF last'.op = "outgoing:call"
        THEN IF ~Truthy(p.to) \/ ~Truthy(p.data) THEN "Invalid call parameters"
             ELSE IF ~Colocated(id, p.to.s) THEN "Users are not in the same room"
                  ELSE "none"
        ELSE IF last'.op = "call:accepted"
        THEN IF ~Truthy(p.to) \/ ~Truthy(p.data) THEN "Invalid answer parameters"
             ELSE "none"
        ELSE "none"

\* C24: a message rejected as invalid room id, room full, peers not in the
\* same room or invalid call parameters is answered by exactly one error
\* event, to its sender only; no other socket receives anything, and the
\* profiles, the room table and the socket-to-room map are unchanged.
C24_Rejected ==
    \A id \in connected :
        Rejection(id) # "none"
        => /\ sent' = <<Event({id}, "error", NoId, Str(<<Rejection(id)>>))>>
           /\ rooms' = rooms
           /\ socketToRoom' = socketToRoom
           /\ userProfiles' = userProfiles

C24_OneErrorToSender == [][C24_Rejected]_vars

\* a socket that is in room a was refused the full room b
C24_Witness ==
    /\ last.op = "room:join" /\ last.p.roomId = Str(<<"b">>)
    /\ sent = <<RoomIsFullError(last.id)>>
    /\ Has(socketToRoom, last.id) /\ socketToRoom[last.id] = <<"a">>
    /\ Has(rooms, <<"b">>) /\ Cardinality(rooms[<<"b">>]) = 2

\* socket id, a member of r1, sends a room:join for the other room r2
MovesFrom(id, r1, r2) ==
    /\ Has(rooms, r1) /\ id \in rooms[r1] /\ r2 # r1
    /\ JoinStep(id) /\ last'.p.roomId = Str(r2)

\* r2 has 2 members and id is not one of them
FullFor(id, r2) ==
    Has(rooms, r2) /\ Cardinality(rooms[r2]) >= 2 /\ id \notin rooms[r2]

\* C25: room:join leaves the current room before it checks the capacity of
\* the target: a member of R1 that joins a full room R2 is rejected with
\* 'Room is full' and is no longer a member of R1, whose remaining member
\* has been sent user:left.
C25_LeaveThenCheck ==
    \A id \in connected, r1 \in DOMAIN rooms, r2 \in DOMAIN rooms :
        (MovesFrom(id, r1, r2) /\ FullFor(id, r2))
        => /\ Received(sent', id, {"error"}) # {}
           /\ RoomsOf(rooms', id) = {}
           /\ \A m \in rooms[r1] \ {id} : DepartureNotice(m, id)

C25_LeaveBeforeCapacityCheck == [][C25_LeaveThenCheck]_vars

\* C25 as amended: room:join checks the capacity of the target before it
\* leaves the current room: a member of R1 that joins a full room R2 gets
\* 'Room is full', stays a member of R1, and no one is sent user:left; when
\* R2 is not full, user:left to the remaining member of R1 comes before
\* every notification of the join.
C25_CheckThenLeave ==
    \A id \in connected, r1 \in DOMAIN rooms, r2 \in RoomsIn(RoomIdInputs) :
        MovesFrom(id, r1, r2)
        => IF FullFor(id, r2)
           THEN /\ sent' = <<RoomIsFullError(id)>>
                /\ rooms' = rooms
                /\ socketToRoom' = socketToRoom
           ELSE /\ RoomsOf(rooms', id) = {r2}
                /\ \A m \in rooms[r1] \ {id} :
                       /\ sent'[1] = Event({m}, "user:left", id, Str(r1))
                       /\ \A i \in 2..Len(sent') : sent'[i].ev # "user:left"

C25_CapacityCheckBeforeLeave == [][C25_CheckThenLeave]_vars

\* the only member of room b was refused the full room a and is still the
\* member of b
C25_Witness ==
    /\ last.op = "room:join" /\ last.p.roomId = Str(<<"a">>)
    /\ last.id \in connected
    /\ sent = <<RoomIsFullError(last.id)>>
    /\ Has(rooms, <<"b">>) /\ rooms[<<"b">>] = {last.id}
    /\ Has(rooms, <<"a">>) /\ Cardinality(rooms[<<"a">>]) = 2

\* C26: room:join leaves the current room only when it is another room than
\* the target: a room:join to the room the socket is a member of sends no
\* user:left to the other member of that room.
C26_Rejoin ==
    \A id \in connected, r \in DOMAIN rooms :
        (/\ id \in rooms[r]
         /\ JoinStep(id) /\ last'.p.roomId = Str(r))
        => \A m \in rooms[r] \ {id} : Received(sent', m, {"user:left"}) = {}

C26_RejoinSendsNoLeft == [][C26_Rejoin]_vars

\* C27: an ice:candidate with a candidate, and a call:ended, addressed to a
\* connected socket reach it tagged with the sender's id whether or not the
\* two are in the same room or in any room.
C27_RelayedWithoutRoomCheck ==
    \A A \in connected, B \in connected :
        (A # B /\ last.id = A /\ last.p.has /\ last.p.to = Str(B))
        => /\ (last.op = "ice:candidate" /\ Truthy(last.p.data))
              => sent = <<Event({B}, "ice:candidate", A, last.p.data)>>
           /\ last.op = "call:ended"
              => sent = <<Event({B}, "call:ended", A, Undefined)>>

\* a candidate from a socket that is in no room reached a socket in a room
C27_Witness ==
    \E A \in connected, B \in connected :
        /\ A # B /\ ~Has(socketToRoom, A) /\ Has(socketToRoom, B)
        /\ last.op = "ice:candidate" /\ last.id = A
        /\ sent = <<Event({B}, "ice:candidate", A, Str(<<"o1">>))>>

\* C28: a relayed call:accepted, ice:candidate or call:ended reaches at most
\* one socket, the one whose id is the message's `to`; a `to` that is the id
\* of a room sockets have joined reaches none of them.
C28_OnlyTheAddressee ==
    (last.op \in {"call:accepted", "ice:candidate", "call:ended"} /\ last.p.has)
    => \A i \in 1..Len(sent) :
          sent[i].ev \in Forwarded
          => /\ IsString(last.p.to)
             /\ sent[i].rcpt = {last.p.to.s}

\* C29: a sweep evicts a socket only when now - lastActivity is greater than
\* the threshold: a profile whose last activity (connection, admitted
\* room:join, ping, user:activity) is not older than the threshold at the
\* sweep stays as it is, and so does the socket's room membership.
C29_Sweep ==
    \A id \in connected :
        /\ (SweepStep /\ Has(userProfiles, id)
             /\ userProfiles[id].idle <= maxInactiveTime)
           => /\ Has(userProfiles', id) /\ userProfiles'[id] = userProfiles[id]
              /\ Get(socketToRoom', id) = Get(socketToRoom, id)
              /\ RoomsOf(rooms', id) = RoomsOf(rooms, id)
        /\ (/\ Has(userProfiles', id)
            /\ \/ FromSocket("ping", id)
               \/ FromSocket("user:activity", id)
               \/ JoinStep(id) /\ Admitted(sent')
               \/ FromSocket("connection", id) /\ nextId' = nextId + 1)
           => userProfiles'[id].idle = 0

C29_EvictsOnlyBeyondThreshold == [][C29_Sweep]_vars

\* a sweep has evicted one member of a room and kept the other, whose last
\* activity is exactly the threshold ago
C29_Witness ==
    /\ last.op = "cleanup"
    /\ \E id \in connected, m \in connected :
          /\ Has(userProfiles, id) /\ userProfiles[id].idle = maxInactiveTime
          /\ Has(socketToRoom, id)
          /\ ~Has(userProfiles, m)
          /\ sent = <<Event({id}, "user:left", m, Str(socketToRoom[id]))>>

\* C30: in every reachable state every member of every room has a profile
\* in userProfiles, also after a sweep and further events from the socket
\* it evicted.
C30_MembersHaveProfiles ==
    \A r \in DOMAIN rooms : \A m \in rooms[r] : Has(userProfiles, m)

\* the rooms the socket-to-room map and the room table speak of
KnownRooms == DOMAIN rooms \cup {socketToRoom[c] : c \in DOMAIN socketToRoom}

\* C31: after every handler and every sweep the socket-to-room map and the
\* room table agree in both directions: socketToRoom maps socket c to room r
\* if and only if r is a key of the room table and its member set holds c.
C31_MapAgreesWithRooms ==
    \A c \in SocketIds, r \in KnownRooms :
        (Has(socketToRoom, c) /\ socketToRoom[c] = r)
        <=> (Has(rooms, r) /\ c \in rooms[r])

\* a sweep has taken one member out of a room and its map entry with it,
\* while the other member keeps both
C31_Witness ==
    /\ last.op = "cleanup"
    /\ \E c \in connected, m \in connected :
          /\ ~Has(socketToRoom, c) /\ RoomsOf(rooms, c) = {}
          /\ Has(socketToRoom, m) /\ rooms[socketToRoom[m]] = {m}
          /\ sent = <<Event({m}, "user:left", c, Str(socketToRoom[m]))>>

\* the four signaling events
Signaling == {"outgoing:call", "call:accepted", "ice:candidate", "call:ended"}

\* C32: handling outgoing:call, call:accepted, ice:candidate or call:ended,
\* whether the message is forwarded, rejected or dropped, leaves the room
\* table, the socket-to-room map and every profile (the sender's last
\* activity time included) unchanged.
C32_Frame ==
    last'.op \in Signaling
    => UNCHANGED <<rooms, socketToRoom, userProfiles>>

C32_SignalingChangesNoState == [][C32_Frame]_vars

\* C33: whenever the roomJoined flag of a client is true while its socket is
\* connected, the server has that socket as a member of a room: the client
\* marks itself joined only for a join the server admitted, not for one it
\* rejected with 'Room is full' or 'Invalid room ID'.
C33_JoinedFlagMeansMember ==
    \A id \in roomJoined \cap connected :
        Has(socketToRoom, id) /\ RoomsOf(rooms, id) # {}

====
